---- MODULE Spec2Model ----
(***************************************************************************)
(* Model of tools/unusedsymbols.py: the RGBDS object-file parser           *)
(* (parse_object), the RPN scan of the patch expressions and the           *)
(* per-name reference tally kept by the main loop.                         *)
(*                                                                         *)
(* A file is the sequence of its bytes (0..255).  A decoded string is the  *)
(* sequence of its code points.  A Python dict with optional keys is a     *)
(* TLA+ record whose DOMAIN is the set of keys that were assigned.  An     *)
(* insertion-ordered dict from names to counts is a sequence of            *)
(* [name, count] records in insertion order.                               *)
(*                                                                         *)
(* A little-endian u32 is kept as its two 16-bit halves [lo, hi], value    *)
(* lo + 65536 * hi, so that every 4-byte pattern has a value in the model  *)
(* while sums of file positions stay small.                                *)
(***************************************************************************)
EXTENDS Integers, Sequences, FiniteSets, TLC

VARIABLES
    files,          \* argv[argi:], each file given by its bytes
    just_dump,      \* line 143-146: the -D flag
    fi,             \* index in files of the loop variable filename, line 152
    pc,             \* position of the script
    fpos,           \* read cursor of the file opened at line 48
    obj,            \* the dict built by parse_object, then obj of line 155
    num_symbols,    \* line 70
    num_sections,   \* line 70
    num_patches,    \* line 99
    num_assertions, \* line 119
    section,        \* line 84: the section whose patches are being read
    short_read,     \* some file.read(n) so far returned fewer than n bytes
    parsed,         \* the values parse_object returned at line 155, in order
    globalsyms,     \* line 150
    localsyms,      \* line 164
    imports,        \* line 166
    exports,        \* line 167
    ri,             \* number of symbols the loop of line 168 has handled
    pj,             \* number of patches the loops of lines 185-187 have entered
    pos,            \* line 190
    refs,           \* the symbol_id values of line 200 for the current patch
    stdout,         \* the lines printed to sys.stdout
    exit_code,      \* exit status of the process, NoCode while it runs
    exc             \* what ended the run early: a message or an exception

vars == <<files, just_dump, fi, pc, fpos, obj, num_symbols, num_sections,
          num_patches, num_assertions, section, short_read, parsed,
          globalsyms, localsyms, imports, exports, ri, pj, pos, refs,
          stdout, exit_code, exc>>

NoCode == 0 - 1
NoExc == "none"
NoSection == <<>>
None == <<>>

(***************************************************************************)
(* Bytes, integers and strings                                             *)
(***************************************************************************)
Min(a, b) == IF a < b THEN a ELSE b

\* a u32 decoded from 4 bytes by struct.unpack("<I", ...)
U32(b) == [lo |-> b[1] + 256 * b[2], hi |-> b[3] + 256 * b[4]]

\* the u32 of a small number
U32Of(n) == [lo |-> n, hi |-> 0]

\* x < u, for a small number x: the test of range(u) at index x
U32Above(u, x) == u.hi > 0 \/ u.lo > x

\* file.read(n): the bytes from the cursor, at most n of them
FileRead(file, p, n) ==
    LET e == Min(Len(file), p + n)
    IN  [data |-> SubSeq(file, p + 1, e), pos |-> e]

\* file.read(size) for a size that was read from the file as a u32
FileReadU32(file, p, u) ==
    IF u.hi > 0 THEN FileRead(file, p, Len(file)) ELSE FileRead(file, p, u.lo)

\* unpack_file(fmt, file) with calcsize(fmt) = n: the n raw bytes, or
\* struct.error when file.read returned fewer than n
unpack_file(n, file, p) ==
    LET r == FileRead(file, p, n)
    IN  IF Len(r.data) < n
        THEN [st |-> "struct.error", pos |-> r.pos, short |-> TRUE]
        ELSE [st |-> "ok", pos |-> r.pos, short |-> FALSE, val |-> r.data]

\* bytes.decode(): UTF-8 to code points; <<BadText>> marks an invalid sequence
BadText == 0 - 1

IsCont(b) == b >= 128 /\ b <= 191

RECURSIVE Utf8Decode(_)
Utf8Decode(b) ==
    IF Len(b) = 0 THEN <<>>
    ELSE LET b1 == b[1]
             n == IF b1 < 128 THEN 1
                  ELSE IF b1 >= 194 /\ b1 <= 223 THEN 2
                  ELSE IF b1 >= 224 /\ b1 <= 239 THEN 3
                  ELSE IF b1 >= 240 /\ b1 <= 244 THEN 4
                  ELSE 0
             ok == /\ n > 0
                   /\ Len(b) >= n
                   /\ \A k \in 2..n : IsCont(b[k])
                   /\ (b1 = 224 => b[2] >= 160)
                   /\ (b1 = 237 => b[2] <= 159)
                   /\ (b1 = 240 => b[2] >= 144)
                   /\ (b1 = 244 => b[2] <= 143)
             cp == IF n = 1 THEN b1
                   ELSE IF n = 2 THEN (b1 - 192) * 64 + (b[2] - 128)
                   ELSE IF n = 3 THEN (b1 - 224) * 4096 + (b[2] - 128) * 64
                                      + (b[3] - 128)
                   ELSE (b1 - 240) * 262144 + (b[2] - 128) * 4096
                        + (b[3] - 128) * 64 + (b[4] - 128)
         IN  IF ~ok THEN <<BadText>>
             ELSE LET rest == Utf8Decode(SubSeq(b, n + 1, Len(b)))
                  IN  IF rest # <<>> /\ rest[1] = BadText THEN <<BadText>>
                      ELSE <<cp>> \o rest

\* read_string(file): the loop of lines 40-45 from cursor p with buf read so
\* far.  At end of file file.read(1) returns b'', which is neither None nor
\* b'\0': buf += b'' changes nothing and the loop repeats in the same state.
RECURSIVE read_string_loop(_, _, _)
read_string_loop(file, p, buf) ==
    IF p >= Len(file)
    THEN [st |-> "spin", pos |-> p, short |-> TRUE]
    ELSE IF file[p + 1] = 0
         THEN LET s == Utf8Decode(buf)
              IN  IF s # <<>> /\ s[1] = BadText
                  THEN [st |-> "UnicodeDecodeError", pos |-> p + 1,
                        short |-> FALSE]
                  ELSE [st |-> "ok", pos |-> p + 1, short |-> FALSE,
                        val |-> s]
         ELSE read_string_loop(file, p + 1, Append(buf, file[p + 1]))

read_string(file, p) == read_string_loop(file, p, <<>>)

(***************************************************************************)
(* parse_object, one record at a time.  Every reader takes the file and    *)
(* the cursor and returns st ("ok", the exception raised, or "spin" for    *)
(* the endless loop of read_string), the new cursor, whether a read came   *)
(* back short, and on "ok" the value.                                      *)
(***************************************************************************)
Fail(r) == [st |-> r.st, pos |-> r.pos, short |-> r.short]
Raise(e, p) == [st |-> e, pos |-> p, short |-> FALSE]
Ok(v, p, s) == [st |-> "ok", pos |-> p, short |-> s, val |-> v]

symtype == <<"LOCAL", "IMPORT", "EXPORT">>
sectype == <<"WRAM0", "VRAM", "ROMX", "ROM0", "HRAM", "WRAMX", "SRAM", "OAM">>
patchtype == <<"BYTE", "WORD", "LONG", "JR">>
asserttype == <<"WARN", "ERROR", "FAIL">>

RGB6 == <<82, 71, 66, 54>>
RGB9 == <<82, 71, 66, 57>>
\* a version list that also lets revision 2 through
SupportedVersionsWith12 == {6, 10, 11, 12, 13, 14}

\* line 64
SupportedVersions == {6, 10, 11, 13, 14}

\* 10 + u for a u32 u, line 59
U32Plus10(u) == [lo |-> (u.lo + 10) % 65536,
                 hi |-> u.hi + ((u.lo + 10) \div 65536)]

\* Each reader below is one statement of parse_object: it takes the results
\* of the reads before it, fails if the latest one failed, and otherwise
\* goes on to the next read.

\* line 70, c the result of unpack_file("<II")
HeaderCounts(v, c) ==
    IF c.st # "ok" THEN Fail(c)
    ELSE Ok([version |-> v.val.lo,
             num_symbols |-> U32(SubSeq(c.val, 1, 4)),
             num_sections |-> U32(SubSeq(c.val, 5, 8))], c.pos, FALSE)

\* lines 64-70, v the value of obj_ver
HeaderVersion(file, v) ==
    IF v.st # "ok" THEN Fail(v)
    ELSE IF ~(v.val.hi = 0 /\ v.val.lo \in SupportedVersions)
    THEN Raise("unknown format: version", v.pos)
    ELSE HeaderCounts(v, unpack_file(8, file, v.pos))

\* line 59, r the result of unpack_file("<I")
HeaderRevision(r) ==
    IF r.st # "ok" THEN Fail(r)
    ELSE Ok(U32Plus10(U32(r.val)), r.pos, FALSE)

\* lines 56-62, m the result of unpack_file("4s")
HeaderMagic(file, m) ==
    IF m.st # "ok" THEN Fail(m)
    ELSE IF m.val # RGB6 /\ m.val # RGB9 THEN Raise("unknown format", m.pos)
    ELSE HeaderVersion(file,
            IF m.val = RGB6 THEN Ok(U32Of(6), m.pos, FALSE)
            ELSE HeaderRevision(unpack_file(4, file, m.pos)))

\* lines 55-70: magic, version and the two counts
ParseHeaderRec(file, p) == HeaderMagic(file, unpack_file(4, file, p))

\* line 79, u the result of unpack_file("<III")
SymbolValues(n, t, f, u) ==
    IF u.st # "ok" THEN Fail(u)
    ELSE Ok([name |-> n.val, type |-> symtype[t.val[1] + 1],
             filename |-> f.val,
             line_num |-> U32(SubSeq(u.val, 1, 4)),
             section |-> U32(SubSeq(u.val, 5, 8)),
             value |-> U32(SubSeq(u.val, 9, 12))], u.pos, FALSE)

\* lines 78-79, f the result of read_string
SymbolFilename(file, n, t, f) ==
    IF f.st # "ok" THEN Fail(f)
    ELSE SymbolValues(n, t, f, unpack_file(12, file, f.pos))

\* lines 76-79, t the result of unpack_file("<B")
SymbolType(file, n, t) ==
    IF t.st # "ok" THEN Fail(t)
    ELSE IF t.val[1] > 2 THEN Raise("ValueError", t.pos)
    ELSE IF symtype[t.val[1] + 1] = "IMPORT"
    THEN Ok([name |-> n.val, type |-> "IMPORT"], t.pos, FALSE)
    ELSE SymbolFilename(file, n, t, read_string(file, t.pos))

\* lines 75-79, n the result of read_string
SymbolName(file, n) ==
    IF n.st # "ok" THEN Fail(n)
    ELSE SymbolType(file, n, unpack_file(1, file, n.pos))

\* lines 73-79: one symbol
ParseSymbolRec(file, p) == SymbolName(file, read_string(file, p))

\* the section dict of lines 86-93; a is the 5 bytes of "<BI" or the 4 bytes
\* of "<I", whichever was read
SectionDict(n, h, a) ==
    [name |-> n.val,
     org |-> U32(SubSeq(h.val, 6, 9)),
     bank |-> U32(SubSeq(h.val, 10, 13)),
     type |-> sectype[h.val[5] + 1]]
    @@ (IF Len(a.val) = 5
        THEN [align |-> U32Of(a.val[1]), offset |-> U32(SubSeq(a.val, 2, 5))]
        ELSE [align |-> U32(a.val)])

\* lines 96-99, d the result of file.read(size), c of unpack_file("<I")
SectionPatchCount(n, h, a, d, c) ==
    IF c.st # "ok" THEN Fail(c)
    ELSE Ok([section |-> SectionDict(n, h, a)
                         @@ [data |-> d.data, patches |-> <<>>],
             num_patches |-> U32(c.val)],
            c.pos, U32Above(U32(SubSeq(h.val, 1, 4)), Len(d.data)))

\* lines 96-99, d the result of file.read(size)
SectionData(file, n, h, a, d) ==
    SectionPatchCount(n, h, a, d, unpack_file(4, file, d.pos))

\* lines 90-99, a the result of unpack_file("<BI") or unpack_file("<I")
SectionAlign(file, n, h, a) ==
    IF a.st # "ok" THEN Fail(a)
    ELSE IF sectype[h.val[5] + 1] \notin {"ROMX", "ROM0"}
    THEN Ok([section |-> SectionDict(n, h, a),
             num_patches |-> U32Of(0)], a.pos, FALSE)
    ELSE SectionData(file, n, h, a,
                     FileReadU32(file, a.pos, U32(SubSeq(h.val, 1, 4))))

\* lines 87-99, h the result of unpack_file("<IBII")
SectionHeader(obj_ver, file, n, h) ==
    IF h.st # "ok" THEN Fail(h)
    ELSE IF h.val[5] > 7 THEN Raise("ValueError", h.pos)
    ELSE SectionAlign(file, n, h,
                      IF obj_ver >= 14 THEN unpack_file(5, file, h.pos)
                      ELSE unpack_file(4, file, h.pos))

\* lines 86-99, n the result of read_string
SectionName(obj_ver, file, n) ==
    IF n.st # "ok" THEN Fail(n)
    ELSE SectionHeader(obj_ver, file, n, unpack_file(13, file, n.pos))

\* lines 84-99: one section up to its patch count; val.section is the dict,
\* val.num_patches the count (no patch to read for a section without ROM)
ParseSectionRec(obj_ver, file, p) ==
    SectionName(obj_ver, file, read_string(file, p))

\* lines 109-111, r the result of file.read(rpn_size); the patch dict has
\* the keys whose fields were read (l, q are empty when they were not)
PatchRpn(n, l, o, q, t, r) ==
    Ok([filename |-> n.val]
       @@ (IF l.val # <<>> THEN [line |-> U32(l.val)] ELSE <<>>)
       @@ [offset |-> U32(o.val)]
       @@ (IF q.val # <<>>
           THEN [pcsectionid |-> U32(SubSeq(q.val, 1, 4)),
                 pcoffset |-> U32(SubSeq(q.val, 5, 8))]
           ELSE <<>>)
       @@ [type |-> patchtype[t.val[1] + 1], rpn |-> r.data],
       r.pos, U32Above(U32(SubSeq(t.val, 2, 5)), Len(r.data)))

\* lines 109-111, t the result of unpack_file("<BI")
PatchType(obj_ver, file, n, l, o, q, t) ==
    IF t.st # "ok" THEN Fail(t)
    ELSE IF t.val[1] > 3 THEN Raise("ValueError", t.pos)
    ELSE PatchRpn(n, l, o, q, t,
                  FileReadU32(file, t.pos, U32(SubSeq(t.val, 2, 5))))

\* lines 107-111, q the result of unpack_file("<II") when obj_ver >= 14
PatchPc(obj_ver, file, n, l, o, q) ==
    IF q.st # "ok" THEN Fail(q)
    ELSE PatchType(obj_ver, file, n, l, o, q, unpack_file(5, file, q.pos))

\* lines 106-111, o the result of unpack_file("<I")
PatchOffset(obj_ver, file, n, l, o) ==
    IF o.st # "ok" THEN Fail(o)
    ELSE PatchPc(obj_ver, file, n, l, o,
                 IF obj_ver >= 14 THEN unpack_file(8, file, o.pos)
                 ELSE Ok(<<>>, o.pos, FALSE))

\* lines 104-111, l the result of unpack_file("<I") when obj_ver < 11
PatchLine(obj_ver, file, n, l) ==
    IF l.st # "ok" THEN Fail(l)
    ELSE PatchOffset(obj_ver, file, n, l, unpack_file(4, file, l.pos))

\* a patch reader that still reads the line field of a version 11 file
PatchFilenameLineBelow13(obj_ver, file, n) ==
    IF n.st # "ok" THEN Fail(n)
    ELSE PatchLine(obj_ver, file, n,
                   IF obj_ver < 13 THEN unpack_file(4, file, n.pos)
                   ELSE Ok(<<>>, n.pos, FALSE))

\* lines 103-111, n the result of read_string
PatchFilename(obj_ver, file, n) ==
    IF n.st # "ok" THEN Fail(n)
    ELSE PatchLine(obj_ver, file, n,
                   IF obj_ver < 11 THEN unpack_file(4, file, n.pos)
                   ELSE Ok(<<>>, n.pos, FALSE))

\* lines 101-111: one patch
ParsePatchRec(obj_ver, file, p) ==
    PatchFilename(obj_ver, file, read_string(file, p))

\* line 130, m the result of read_string
AssertionMessage(n, o, t, r, m) ==
    IF m.st # "ok" THEN Fail(m)
    ELSE Ok([filename |-> n.val, offset |-> U32(o.val),
             type |-> asserttype[t.val[1] + 1], rpn |-> r.data,
             message |-> m.val],
            m.pos, U32Above(U32(SubSeq(t.val, 2, 5)), Len(r.data)))

\* lines 129-130, r the result of file.read(rpn_size)
AssertionRpn(file, n, o, t, r) ==
    AssertionMessage(n, o, t, r, read_string(file, r.pos))

\* lines 127-130, t the result of unpack_file("<BI")
AssertionType(file, n, o, t) ==
    IF t.st # "ok" THEN Fail(t)
    ELSE IF t.val[1] > 2 THEN Raise("ValueError", t.pos)
    ELSE AssertionRpn(file, n, o, t,
                      FileReadU32(file, t.pos, U32(SubSeq(t.val, 2, 5))))

\* lines 124-130, o the result of unpack_file("<I").  Line 126 calls
\* unpack_file("<II") without the file argument: a TypeError, raised before
\* anything is read.
AssertionOffset(obj_ver, file, n, o) ==
    IF o.st # "ok" THEN Fail(o)
    ELSE IF obj_ver >= 14 THEN Raise("TypeError", o.pos)
    ELSE AssertionType(file, n, o, unpack_file(5, file, o.pos))

\* lines 123-130, n the result of read_string
AssertionFilename(obj_ver, file, n) ==
    IF n.st # "ok" THEN Fail(n)
    ELSE AssertionOffset(obj_ver, file, n, unpack_file(4, file, n.pos))

\* lines 121-130: one assertion
ParseAssertionRec(obj_ver, file, p) ==
    AssertionFilename(obj_ver, file, read_string(file, p))

(***************************************************************************)
(* The dicts globalsyms and localsyms                                      *)
(***************************************************************************)
Keys(d) == {d[i].name : i \in DOMAIN d}
HasKey(d, k) == \E i \in DOMAIN d : d[i].name = k
Count(d, k) == d[CHOOSE i \in DOMAIN d : d[i].name = k].count

\* the test of lines 170, 174, 178 inverted: a present key is reset
SetDefault0Inverted(d, k) ==
    IF ~HasKey(d, k) THEN d
    ELSE [i \in DOMAIN d |-> IF d[i].name = k
                             THEN [d[i] EXCEPT !.count = 0] ELSE d[i]]

\* if k not in d: d[k] = 0
SetDefault0(d, k) ==
    IF HasKey(d, k) THEN d ELSE Append(d, [name |-> k, count |-> 0])

\* d[k] += 1, for a key that is present
Incr(d, k) ==
    [i \in DOMAIN d |-> IF d[i].name = k
                        THEN [d[i] EXCEPT !.count = @ + 1] ELSE d[i]]

(***************************************************************************)
(* The RPN scan, lines 190-208                                             *)
(***************************************************************************)
\* the patches the loops of lines 185-187 visit, in order
RECURSIVE AllPatches(_)
AllPatches(sections) ==
    IF sections = <<>> THEN <<>>
    ELSE LET sec == Head(sections)
         IN  (IF sec.type \in {"ROMX", "ROM0"} THEN sec.patches ELSE <<>>)
             \o AllPatches(Tail(sections))

\* lines 194-195: from position q (0-based) the position of the next zero
\* byte, or Len(rpn) when rpn[pos] runs off the end (IndexError)
RECURSIVE SkipString(_, _)
SkipString(rpn, q) ==
    IF q >= Len(rpn) THEN q
    ELSE IF rpn[q + 1] = 0 THEN q ELSE SkipString(rpn, q + 1)

\* line 200: the operand rpn[pos + 1:pos + 5] unpacked as "<I"
SymbolId(p, operand) ==
    IF Len(operand) # 4
    THEN [st |-> "struct.error", pos |-> p, yield |-> <<>>]
    ELSE [st |-> "ok", pos |-> p + 5, yield |-> <<U32(operand)>>]

\* lines 193-196: z the position where the loop of line 194 ends
StringOperand(rpn, z) ==
    IF z >= Len(rpn) THEN [st |-> "IndexError", pos |-> z, yield |-> <<>>]
    ELSE [st |-> "ok", pos |-> z + 1, yield |-> <<>>]

\* a scan that takes 0x80 for an opcode without operand
RpnStepConstantOneByte(rpn, p) ==
    IF rpn[p + 1] = 81 THEN StringOperand(rpn, SkipString(rpn, p + 1))
    ELSE IF rpn[p + 1] = 80 \/ rpn[p + 1] = 129
    THEN SymbolId(p, SubSeq(rpn, p + 2, Min(p + 5, Len(rpn))))
    ELSE [st |-> "ok", pos |-> p + 1, yield |-> <<>>]

\* one pass of the while body at position p < len(rpn), without the lookup:
\* the new position and the symbol_id decoded at line 200, if any
RpnStep(rpn, p) ==
    IF rpn[p + 1] = 81 THEN StringOperand(rpn, SkipString(rpn, p + 1))
    ELSE IF rpn[p + 1] = 128
    THEN [st |-> "ok", pos |-> p + 5, yield |-> <<>>]
    ELSE IF rpn[p + 1] = 80 \/ rpn[p + 1] = 129
    THEN SymbolId(p, SubSeq(rpn, p + 2, Min(p + 5, Len(rpn))))
    ELSE [st |-> "ok", pos |-> p + 1, yield |-> <<>>]

(***************************************************************************)
(* The script                                                              *)
(***************************************************************************)
Running == exit_code = NoCode /\ exc = NoExc

\* an uncaught exception or exit(1) ends the process with status 1; the
\* endless loop of read_string ends nothing
StopCode(st) == IF st = "spin" THEN NoCode ELSE 1

\* where parse_object goes on after a symbol or a section
NextParsePc(o, nsym, nsec) ==
    IF U32Above(nsym, Len(o.symbols)) THEN "symbols"
    ELSE IF U32Above(nsec, Len(o.sections)) THEN "sections"
    ELSE IF o.version >= 13 THEN "assertion_count"
    ELSE "parsed"

\* the end of a parse step whose read failed: the exception or exit(1) ends
\* the run, the endless loop keeps it
ParseStops(r) ==
    /\ exc' = r.st
    /\ exit_code' = StopCode(r.st)

\* the end of a parse step that left the dict o: parse_object goes on, or
\* returns o at line 134
ParseGoesOn(o, nextpc) ==
    /\ obj' = o
    /\ pc' = nextpc
    /\ parsed' = IF nextpc = "parsed" THEN Append(parsed, o) ELSE parsed
    /\ UNCHANGED <<exit_code, exc>>

ParseHeaderDo(r) ==
    /\ fpos' = r.pos
    /\ short_read' = (short_read \/ r.short)
    /\ IF r.st = "ok"
       THEN /\ num_symbols' = r.val.num_symbols
            /\ num_sections' = r.val.num_sections
            /\ ParseGoesOn([symbols |-> <<>>, sections |-> <<>>,
                            version |-> r.val.version],
                           NextParsePc([symbols |-> <<>>, sections |-> <<>>,
                                        version |-> r.val.version],
                                       r.val.num_symbols, r.val.num_sections))
       ELSE /\ obj' = IF r.st \in {"unknown format", "unknown format: version"}
                     THEN None
                     ELSE [symbols |-> <<>>, sections |-> <<>>]
            /\ ParseStops(r)
            /\ UNCHANGED <<num_symbols, num_sections, pc, parsed>>

\* lines 152-155 and 48-70: the next file is opened and its header parsed;
\* a None result is followed by exit(1), lines 156-157
ParseHeader ==
    /\ Running /\ pc = "loop" /\ fi <= Len(files)
    /\ ParseHeaderDo(ParseHeaderRec(files[fi], 0))
    /\ UNCHANGED <<files, just_dump, fi, num_patches, num_assertions, section,
                   globalsyms, localsyms, imports, exports, ri, pj, pos, refs,
                   stdout>>

ParseSymbolDo(r) ==
    /\ fpos' = r.pos
    /\ short_read' = (short_read \/ r.short)
    /\ IF r.st = "ok"
       THEN ParseGoesOn([obj EXCEPT !.symbols = Append(@, r.val)],
                        NextParsePc([obj EXCEPT !.symbols = Append(@, r.val)],
                                    num_symbols, num_sections))
       ELSE ParseStops(r) /\ UNCHANGED <<obj, pc, parsed>>

\* lines 72-81: one pass of the symbol loop
ParseSymbol ==
    /\ Running /\ pc = "symbols"
    /\ ParseSymbolDo(ParseSymbolRec(files[fi], fpos))
    /\ UNCHANGED <<files, just_dump, fi, num_symbols, num_sections,
                   num_patches, num_assertions, section, globalsyms,
                   localsyms, imports, exports, ri, pj, pos, refs, stdout>>

ParseSectionDo(r) ==
    /\ fpos' = r.pos
    /\ short_read' = (short_read \/ r.short)
    /\ IF r.st # "ok"
       THEN ParseStops(r) /\ UNCHANGED <<obj, pc, parsed, num_patches, section>>
       ELSE /\ num_patches' = r.val.num_patches
            /\ IF U32Above(r.val.num_patches, 0)
               THEN /\ section' = r.val.section
                    /\ pc' = "patches"
                    /\ UNCHANGED <<obj, parsed, exit_code, exc>>
               ELSE /\ section' = NoSection
                    /\ ParseGoesOn(
                         [obj EXCEPT !.sections = Append(@, r.val.section)],
                         NextParsePc(
                           [obj EXCEPT !.sections = Append(@, r.val.section)],
                           num_symbols, num_sections))

\* lines 83-99 and, for a section with no patch to read, line 115
ParseSection ==
    /\ Running /\ pc = "sections"
    /\ ParseSectionDo(ParseSectionRec(obj.version, files[fi], fpos))
    /\ UNCHANGED <<files, just_dump, fi, num_symbols, num_sections,
                   num_assertions, globalsyms, localsyms, imports, exports,
                   ri, pj, pos, refs, stdout>>

\* lines 113-115: the patch joins the section, and after the last patch the
\* section joins obj["sections"]
PatchJoins(sec) ==
    IF U32Above(num_patches, Len(sec.patches))
    THEN /\ section' = sec
         /\ UNCHANGED <<obj, pc, parsed, exit_code, exc>>
    ELSE /\ section' = NoSection
         /\ ParseGoesOn([obj EXCEPT !.sections = Append(@, sec)],
                        NextParsePc([obj EXCEPT !.sections = Append(@, sec)],
                                    num_symbols, num_sections))

ParsePatchDo(r) ==
    /\ fpos' = r.pos
    /\ short_read' = (short_read \/ r.short)
    /\ IF r.st = "ok"
       THEN PatchJoins([section EXCEPT !.patches = Append(@, r.val)])
       ELSE ParseStops(r) /\ UNCHANGED <<obj, pc, parsed, section>>

\* lines 100-113 and, after the last patch of the section, line 115
ParsePatch ==
    /\ Running /\ pc = "patches"
    /\ ParsePatchDo(ParsePatchRec(obj.version, files[fi], fpos))
    /\ UNCHANGED <<files, just_dump, fi, num_symbols, num_sections,
                   num_patches, num_assertions, globalsyms, localsyms,
                   imports, exports, ri, pj, pos, refs, stdout>>

ParseAssertionCountDo(r) ==
    /\ fpos' = r.pos
    /\ short_read' = (short_read \/ r.short)
    /\ IF r.st = "ok"
       THEN /\ num_assertions' = U32(r.val)
            /\ ParseGoesOn(obj @@ [assertions |-> <<>>],
                           IF U32Above(U32(r.val), 0) THEN "assertions"
                           ELSE "parsed")
       ELSE ParseStops(r) /\ UNCHANGED <<obj, pc, parsed, num_assertions>>

\* lines 117-119: the assertion count of a version >= 13 file
ParseAssertionCount ==
    /\ Running /\ pc = "assertion_count"
    /\ ParseAssertionCountDo(unpack_file(4, files[fi], fpos))
    /\ UNCHANGED <<files, just_dump, fi, num_symbols, num_sections,
                   num_patches, section, globalsyms, localsyms, imports,
                   exports, ri, pj, pos, refs, stdout>>

ParseAssertionDo(r) ==
    /\ fpos' = r.pos
    /\ short_read' = (short_read \/ r.short)
    /\ IF r.st = "ok"
       THEN ParseGoesOn([obj EXCEPT !.assertions = Append(@, r.val)],
                        IF U32Above(num_assertions, Len(obj.assertions) + 1)
                        THEN "assertions" ELSE "parsed")
       ELSE ParseStops(r) /\ UNCHANGED <<obj, pc, parsed>>

\* lines 120-132: one pass of the assertion loop
ParseAssertion ==
    /\ Running /\ pc = "assertions"
    /\ ParseAssertionDo(ParseAssertionRec(obj.version, files[fi], fpos))
    /\ UNCHANGED <<files, just_dump, fi, num_symbols, num_sections,
                   num_patches, num_assertions, section, globalsyms,
                   localsyms, imports, exports, ri, pj, pos, refs, stdout>>

\* lines 159-162: dump mode prints the names and goes on to the next file
DumpSymbols ==
    /\ Running /\ pc = "parsed" /\ just_dump
    /\ stdout' = stdout \o [i \in DOMAIN obj.symbols |-> obj.symbols[i].name]
    /\ fi' = fi + 1
    /\ pc' = "loop"
    /\ UNCHANGED <<files, just_dump, fpos, obj, num_symbols, num_sections,
                   num_patches, num_assertions, section, short_read, parsed,
                   globalsyms, localsyms, imports, exports, ri, pj, pos, refs,
                   exit_code, exc>>

\* where the script goes on after ri symbols are registered (lines 168, 185)
NextTallyPc(n) == IF n < Len(obj.symbols) THEN "register" ELSE "next_patch"

\* a start of file that forgets line 164
BeginFileKeepsLocals ==
    /\ Running /\ pc = "parsed" /\ ~just_dump
    /\ imports' = 0
    /\ exports' = 0
    /\ ri' = 0
    /\ pj' = 0
    /\ pc' = NextTallyPc(0)
    /\ UNCHANGED <<files, just_dump, fi, fpos, obj, num_symbols, num_sections,
                   num_patches, num_assertions, section, short_read, parsed,
                   globalsyms, localsyms, pos, refs, stdout, exit_code, exc>>

\* lines 164-167: the per-file tallies are reset
BeginFile ==
    /\ Running /\ pc = "parsed" /\ ~just_dump
    /\ localsyms' = <<>>
    /\ imports' = 0
    /\ exports' = 0
    /\ ri' = 0
    /\ pj' = 0
    /\ pc' = NextTallyPc(0)
    /\ UNCHANGED <<files, just_dump, fi, fpos, obj, num_symbols, num_sections,
                   num_patches, num_assertions, section, short_read, parsed,
                   globalsyms, pos, refs, stdout, exit_code, exc>>

\* lines 168-179: one pass of the registration loop
RegisterSymbol ==
    /\ Running /\ pc = "register"
    /\ LET symbol == obj.symbols[ri + 1]
       IN  /\ localsyms' = IF symbol.type = "LOCAL"
                           THEN SetDefault0(localsyms, symbol.name)
                           ELSE localsyms
           /\ globalsyms' = IF symbol.type \in {"IMPORT", "EXPORT"}
                            THEN SetDefault0(globalsyms, symbol.name)
                            ELSE globalsyms
           /\ imports' = IF symbol.type = "IMPORT" THEN imports + 1
                         ELSE imports
           /\ exports' = IF symbol.type = "EXPORT" THEN exports + 1
                         ELSE exports
    /\ ri' = ri + 1
    /\ pc' = NextTallyPc(ri')
    /\ UNCHANGED <<files, just_dump, fi, fpos, obj, num_symbols, num_sections,
                   num_patches, num_assertions, section, short_read, parsed,
                   pj, pos, refs, stdout, exit_code, exc>>

\* lines 185-190: the next patch is entered with pos = 0; an empty rpn never
\* enters the while loop
EnterPatch ==
    /\ Running /\ pc = "next_patch"
    /\ pj < Len(AllPatches(obj.sections))
    /\ pj' = pj + 1
    /\ pos' = 0
    /\ refs' = <<>>
    /\ pc' = IF Len(AllPatches(obj.sections)[pj'].rpn) > 0 THEN "scan"
             ELSE "next_patch"
    /\ UNCHANGED <<files, just_dump, fi, fpos, obj, num_symbols, num_sections,
                   num_patches, num_assertions, section, short_read, parsed,
                   globalsyms, localsyms, imports, exports, ri, stdout,
                   exit_code, exc>>

\* a tally kind that sends every symbol to globalsyms
TallyKindAlwaysGlobal(symbol) == "global"

\* line 202: the dict a reference to the symbol is counted in
TallyKind(symbol) == IF symbol.type = "LOCAL" THEN "local" ELSE "global"

\* lines 202-205: the count of the symbol goes up in its dict
Counted(r, p, symbol, ls, gs) ==
    IF ~HasKey(IF TallyKind(symbol) = "local" THEN ls ELSE gs, symbol.name)
    THEN [st |-> "KeyError", pos |-> p, yield |-> r.yield,
          localsyms |-> ls, globalsyms |-> gs]
    ELSE IF TallyKind(symbol) = "local"
    THEN [st |-> "ok", pos |-> r.pos, yield |-> r.yield,
          localsyms |-> Incr(ls, symbol.name), globalsyms |-> gs]
    ELSE [st |-> "ok", pos |-> r.pos, yield |-> r.yield,
          localsyms |-> ls, globalsyms |-> Incr(gs, symbol.name)]

\* lines 200-206 for the symbol_id decoded by step r of the scan: the lookup
\* and the increment on the tallies ls (localsyms) and gs (globalsyms)
Tally(r, p, symbols, ls, gs) ==
    IF r.st # "ok" \/ r.yield = <<>>
    THEN [st |-> r.st, pos |-> IF r.st = "ok" THEN r.pos ELSE p,
          yield |-> r.yield, localsyms |-> ls, globalsyms |-> gs]
    ELSE IF ~(r.yield[1].hi = 0 /\ r.yield[1].lo < Len(symbols))
    THEN [st |-> "IndexError", pos |-> p, yield |-> r.yield,
          localsyms |-> ls, globalsyms |-> gs]
    ELSE Counted(r, p, symbols[r.yield[1].lo + 1], ls, gs)

\* lines 192-208: one pass of the while body: the outcome, the new position,
\* the symbol_id decoded at line 200 if any, and the tallies
WhileBody(rpn, p, symbols, ls, gs) ==
    Tally(RpnStep(rpn, p), p, symbols, ls, gs)

ScanStepDo(rpn, r) ==
    /\ pos' = r.pos
    /\ refs' = refs \o r.yield
    /\ localsyms' = r.localsyms
    /\ globalsyms' = r.globalsyms
    /\ IF r.st = "ok"
       THEN /\ pc' = IF r.pos < Len(rpn) THEN "scan" ELSE "next_patch"
            /\ UNCHANGED <<exit_code, exc>>
       ELSE /\ exc' = r.st
            /\ exit_code' = 1
            /\ UNCHANGED pc

\* lines 191-208: one pass of the while loop
ScanStep ==
    /\ Running /\ pc = "scan"
    /\ ScanStepDo(AllPatches(obj.sections)[pj].rpn,
                  WhileBody(AllPatches(obj.sections)[pj].rpn, pos,
                            obj.symbols, localsyms, globalsyms))
    /\ UNCHANGED <<files, just_dump, fi, fpos, obj, num_symbols, num_sections,
                   num_patches, num_assertions, section, short_read, parsed,
                   imports, exports, ri, pj, stdout>>

\* line 210: the patches of the file are done, the loop goes to the next file
EndFile ==
    /\ Running /\ pc = "next_patch"
    /\ pj >= Len(AllPatches(obj.sections))
    /\ fi' = fi + 1
    /\ pc' = "loop"
    /\ UNCHANGED <<files, just_dump, fpos, obj, num_symbols, num_sections,
                   num_patches, num_assertions, section, short_read, parsed,
                   globalsyms, localsyms, imports, exports, ri, pj, pos, refs,
                   stdout, exit_code, exc>>

\* lines 212-213: dump mode ends after the last file
DumpExit ==
    /\ Running /\ pc = "loop" /\ fi > Len(files) /\ just_dump
    /\ pc' = "done"
    /\ exit_code' = 0
    /\ UNCHANGED <<files, just_dump, fi, fpos, obj, num_symbols, num_sections,
                   num_patches, num_assertions, section, short_read, parsed,
                   globalsyms, localsyms, imports, exports, ri, pj, pos, refs,
                   stdout, exc>>

\* the names line 218 prints: the keys of d with count 0, in dict order
RECURSIVE Unreferenced(_)
Unreferenced(d) ==
    IF d = <<>> THEN <<>>
    ELSE (IF Head(d).count = 0 THEN <<Head(d).name>> ELSE <<>>)
         \o Unreferenced(Tail(d))

\* lines 215-218: the report, then the script ends
Report ==
    /\ Running /\ pc = "loop" /\ fi > Len(files) /\ ~just_dump
    /\ stdout' = stdout \o Unreferenced(globalsyms)
    /\ pc' = "done"
    /\ exit_code' = 0
    /\ UNCHANGED <<files, just_dump, fi, fpos, obj, num_symbols, num_sections,
                   num_patches, num_assertions, section, short_read, parsed,
                   globalsyms, localsyms, imports, exports, ri, pj, pos, refs,
                   exc>>

Next ==
    \/ ParseHeader
    \/ ParseSymbol
    \/ ParseSection
    \/ ParsePatch
    \/ ParseAssertionCount
    \/ ParseAssertion
    \/ DumpSymbols
    \/ BeginFile
    \/ RegisterSymbol
    \/ EnterPatch
    \/ ScanStep
    \/ EndFile
    \/ DumpExit
    \/ Report

(***************************************************************************)
(* Input files.  An object file is written from a description              *)
(* [symbols, sections, assertions] with the field layout of its version;   *)
(* the inputs are such files, prefixes of them, and files with a foreign   *)
(* magic, an invalid tag byte or a revision outside the supported set.     *)
(***************************************************************************)
MaxFiles == 2
MaxOps == 3
MaxRevision == 5

RECURSIVE Flatten(_)
Flatten(ss) == IF ss = <<>> THEN <<>> ELSE Head(ss) \o Flatten(Tail(ss))

LE32(n) == <<n % 256, (n \div 256) % 256, 0, 0>>
CStr(s) == s \o <<0>>

NameX == <<88>>
NameY == <<89>>
NameZ == <<90, 195, 169>>
SrcName == <<97>>

SymBytes(sym) ==
    CStr(sym.name) \o <<sym.type>>
    \o (IF sym.type = 1 THEN <<>>
        ELSE CStr(SrcName) \o LE32(7) \o LE32(0) \o LE32(258))

PatchBytes(ver, rpn) ==
    CStr(SrcName)
    \o (IF ver < 11 THEN LE32(3) ELSE <<>>)
    \o LE32(1)
    \o (IF ver >= 14 THEN LE32(0) \o LE32(2) ELSE <<>>)
    \o <<1>> \o LE32(Len(rpn)) \o rpn

SecBytes(ver, sec) ==
    CStr(sec.name) \o LE32(sec.size) \o <<sec.type>> \o LE32(16384)
    \o LE32(1)
    \o (IF ver >= 14 THEN <<4>> \o LE32(2) ELSE LE32(4))
    \o (IF sec.type \in {2, 3}
        THEN sec.data \o LE32(Len(sec.patches))
             \o Flatten([i \in DOMAIN sec.patches |->
                         PatchBytes(ver, sec.patches[i])])
        ELSE <<>>)

AssertBytes(ver, rpn) ==
    CStr(SrcName) \o LE32(5)
    \o (IF ver >= 14 THEN LE32(0) \o LE32(2) ELSE <<>>)
    \o <<2>> \o LE32(Len(rpn)) \o rpn \o CStr(NameY)

BodyBytes(ver, d) ==
    LE32(Len(d.symbols)) \o LE32(Len(d.sections))
    \o Flatten([i \in DOMAIN d.symbols |-> SymBytes(d.symbols[i])])
    \o Flatten([i \in DOMAIN d.sections |-> SecBytes(ver, d.sections[i])])
    \o (IF ver >= 13
        THEN LE32(Len(d.assertions))
             \o Flatten([i \in DOMAIN d.assertions |->
                         AssertBytes(ver, d.assertions[i])])
        ELSE <<>>)

FileBytes(ver, d) ==
    (IF ver = 6 THEN RGB6 ELSE RGB9 \o LE32(ver - 10)) \o BodyBytes(ver, d)

Sym(name, type) == [name |-> name, type |-> type]
Sec(name, type, size, data, patches) ==
    [name |-> name, type |-> type, size |-> size, data |-> data,
     patches |-> patches]
Desc(symbols, sections, assertions) ==
    [symbols |-> symbols, sections |-> sections, assertions |-> assertions]
Ref(op, index) == <<op>> \o LE32(index)

Prefixes(f) == {SubSeq(f, 1, n) : n \in 0..Len(f)}

\* the files the parser is run on alone
DescFull ==
    Desc(<<Sym(NameX, 2), Sym(NameY, 1), Sym(NameZ, 0)>>,
         <<Sec(NameY, 0, 3, <<>>, <<>>),
           Sec(NameX, 2, 2, <<1, 2>>, <<Ref(80, 0) \o <<1>>, Ref(129, 1)>>)>>,
         <<Ref(80, 0), <<>>>>)
DescNoAssert == [DescFull EXCEPT !.assertions = <<>>]
DescEmpty == Desc(<<>>, <<>>, <<>>)

WellFormedFiles ==
    {FileBytes(v, d) : v \in SupportedVersions,
                       d \in {DescFull, DescNoAssert, DescEmpty}}

RevisionFiles ==
    {RGB9 \o LE32(r) \o BodyBytes(10, DescEmpty) : r \in 0..MaxRevision}
    \cup {RGB9 \o r \o BodyBytes(10, DescEmpty) :
          r \in {<<246, 255, 255, 255>>, <<252, 255, 255, 255>>,
                 <<0, 0, 1, 0>>, <<1, 0, 0, 128>>}}

BadFiles ==
    {<<82, 71, 66, 55>> \o BodyBytes(6, DescEmpty),
     <<82, 71, 66>>,
     FileBytes(6, Desc(<<Sym(NameX, 3)>>, <<>>, <<>>)),
     FileBytes(6, Desc(<<Sym(<<255>>, 1)>>, <<>>, <<>>)),
     FileBytes(10, Desc(<<>>, <<Sec(NameX, 8, 0, <<>>, <<>>)>>, <<>>))}

ParseFiles ==
    UNION {Prefixes(f) : f \in WellFormedFiles} \cup RevisionFiles \cup BadFiles

\* the files whole runs are made of
RunImportX == FileBytes(6, Desc(<<Sym(NameX, 1)>>, <<>>, <<>>))
RunExportXRef ==
    FileBytes(11, Desc(<<Sym(NameY, 0), Sym(NameX, 2), Sym(NameY, 1)>>,
                       <<Sec(NameX, 3, 1, <<9>>,
                             <<Ref(80, 1) \o <<1>> \o Ref(129, 0)>>)>>,
                       <<>>))
RunExportsNoRef ==
    FileBytes(10, Desc(<<Sym(NameX, 2), Sym(NameY, 2)>>,
                       <<Sec(NameY, 4, 2, <<>>, <<>>)>>, <<>>))
RunLocalXRef ==
    FileBytes(14, Desc(<<Sym(NameX, 0), Sym(NameY, 2)>>,
                       <<Sec(NameX, 2, 0, <<>>,
                             <<Ref(129, 0) \o <<128, 80, 1, 0, 0>> \o Ref(80, 0)>>)>>,
                       <<>>))
RunTwoPatches ==
    FileBytes(13, Desc(<<Sym(NameX, 2), Sym(NameY, 1)>>,
                       <<Sec(NameX, 2, 0, <<>>, <<Ref(80, 0), Ref(129, 0)>>)>>,
                       <<Ref(80, 1)>>))
RunCutInRpn ==
    LET f == FileBytes(6, Desc(<<Sym(NameX, 2), Sym(NameY, 2)>>,
                               <<Sec(NameX, 3, 0, <<>>,
                                     <<Ref(80, 0) \o <<1>>>>)>>, <<>>))
    IN  SubSeq(f, 1, Len(f) - 1)
RunForeignMagic == <<82, 71, 66, 55>> \o BodyBytes(6, DescEmpty)
RunCutInHeader == SubSeq(RunImportX, 1, 6)
RunCutInString == SubSeq(RunImportX, 1, 13)

RunFiles ==
    {RunImportX, RunExportXRef, RunExportsNoRef, RunLocalXRef, RunTwoPatches,
     RunCutInRpn, RunForeignMagic, RunCutInHeader, RunCutInString}

RECURSIVE SeqsUpTo(_, _)
SeqsUpTo(S, n) ==
    IF n = 0 THEN {<<>>}
    ELSE LET shorter == SeqsUpTo(S, n - 1)
         IN  shorter \cup {Append(q, x) : q \in shorter, x \in S}

\* the expression buffers the scan is run on: up to MaxOps pieces, each a
\* single byte or a whole operand
RpnPieces ==
    {<<0>>, <<1>>, <<80>>, <<81>>, <<128>>, <<129>>,
     Ref(80, 0), Ref(129, 1), Ref(80, 2),
     <<128, 80, 129, 0, 0>>, <<81, 80, 129, 0>>}

RpnBuffers == {Flatten(q) : q \in SeqsUpTo(RpnPieces, MaxOps)}

ScanSymbols == <<Sym(NameY, 0), Sym(NameX, 2), Sym(NameY, 1)>>
ScanFile(symbols, rpn) ==
    FileBytes(6, Desc(symbols, <<Sec(NameX, 3, 0, <<>>, <<rpn>>)>>, <<>>))

\* a table large enough for an index that holds the byte 0x50 or 0x51
WideSymbols ==
    [i \in 1..82 |-> IF i = 81 THEN Sym(NameX, 2)
                     ELSE IF i = 82 THEN Sym(NameY, 0) ELSE Sym(NameY, 1)]
WideRpns ==
    {Ref(80, 80) \o Ref(129, 81) \o <<128>> \o LE32(80) \o <<81, 80, 0>>
     \o Ref(80, 1),
     <<81, 129, 0>> \o Ref(129, 80) \o <<80, 80>>}

Inputs ==
    {[files |-> fs, dump |-> d] :
        fs \in SeqsUpTo(RunFiles, MaxFiles), d \in BOOLEAN}
    \cup {[files |-> <<f>>, dump |-> d] : f \in ParseFiles, d \in {FALSE}}
    \cup {[files |-> <<ScanFile(ScanSymbols, r)>>, dump |-> FALSE] :
          r \in RpnBuffers}
    \cup {[files |-> <<ScanFile(WideSymbols, r)>>, dump |-> FALSE] :
          r \in WideRpns}

\* line 150, after the command line is read (lines 137-148)
Init ==
    /\ \E a \in Inputs : files = a.files /\ just_dump = a.dump
    /\ fi = 1
    /\ pc = "loop"
    /\ fpos = 0
    /\ obj = None
    /\ num_symbols = U32Of(0)
    /\ num_sections = U32Of(0)
    /\ num_patches = U32Of(0)
    /\ num_assertions = U32Of(0)
    /\ section = NoSection
    /\ short_read = FALSE
    /\ parsed = <<>>
    /\ globalsyms = <<>>
    /\ localsyms = <<>>
    /\ imports = 0
    /\ exports = 0
    /\ ri = 0
    /\ pj = 0
    /\ pos = 0
    /\ refs = <<>>
    /\ stdout = <<>>
    /\ exit_code = NoCode
    /\ exc = NoExc

Spec == Init /\ [][Next]_vars

(***************************************************************************)
(* Notions the properties are stated in                                    *)
(***************************************************************************)
\* the little-endian value of 4 bytes, as halves
LittleEndian(b) == [lo |-> b[1] + b[2] * 256, hi |-> b[3] + b[4] * 256]

\* the number of bytes of the UTF-8 form of a string of code points
RECURSIVE Utf8Len(_)
Utf8Len(str) ==
    IF str = <<>> THEN 0
    ELSE (IF Head(str) < 128 THEN 1 ELSE IF Head(str) < 2048 THEN 2
          ELSE IF Head(str) < 65536 THEN 3 ELSE 4) + Utf8Len(Tail(str))

\* the positions (0-based) of the zero bytes of rpn after position q
ZerosAfter(rpn, q) == {z \in (q + 1)..(Len(rpn) - 1) : rpn[z + 1] = 0}

SetMin(S) == CHOOSE x \in S : \A y \in S : x <= y

\* the opcode position that follows the opcode position q; past the end of
\* the buffer when the operand at q is not complete
OpcodeAfter(rpn, q) ==
    IF rpn[q + 1] = 81
    THEN IF ZerosAfter(rpn, q) = {} THEN Len(rpn) + 1
         ELSE SetMin(ZerosAfter(rpn, q)) + 1
    ELSE IF rpn[q + 1] \in {128, 80, 129} THEN q + 5
    ELSE q + 1

\* S extended by the opcode positions from q on, S being those below q
RECURSIVE OpcodesSweep(_, _, _)
OpcodesSweep(rpn, q, S) ==
    IF q >= Len(rpn) THEN S
    ELSE OpcodesSweep(rpn, q + 1,
            IF q = 0 \/ \E q0 \in S : OpcodeAfter(rpn, q0) = q
            THEN S \cup {q} ELSE S)

\* the opcode positions of rpn: 0, and the position after each of them
OpcodePositions(rpn) == OpcodesSweep(rpn, 0, {})

\* each multi-byte operand of rpn is complete
OperandsComplete(rpn) ==
    \A q \in OpcodePositions(rpn) : OpcodeAfter(rpn, q) <= Len(rpn)

\* the positions of the symbol references of rpn
ReferencePositions(rpn) ==
    {q \in OpcodePositions(rpn) : rpn[q + 1] \in {80, 129}}

\* the u32 after each position of Q from q on and below e, in order
RECURSIVE OperandsOf(_, _, _, _)
OperandsOf(rpn, Q, q, e) ==
    IF q >= e \/ q >= Len(rpn) THEN <<>>
    ELSE (IF q \in Q THEN <<LittleEndian(SubSeq(rpn, q + 2, q + 5))>>
          ELSE <<>>) \o OperandsOf(rpn, Q, q + 1, e)

\* the patch the scan is in, or has just left
CurrentRpn == AllPatches(obj.sections)[pj].rpn
InScan == pc \in {"scan", "next_patch"} /\ pj >= 1

(***************************************************************************)
(* C2: on an expression buffer whose operands are complete the scan is at  *)
(* an opcode position (0, past the string after 0x51, 5 after 0x80, 0x50   *)
(* or 0x81, 1 after any other byte) or at the end, and the indices it has  *)
(* decoded are exactly the little-endian u32 after each 0x50 or 0x81 that  *)
(* stands at an opcode position it has passed, in order; at the end of the *)
(* scan those are all of them.                                             *)
(***************************************************************************)
C2_ScanYieldsReferences ==
    (InScan /\ OperandsComplete(CurrentRpn)) =>
        /\ pos \in OpcodePositions(CurrentRpn) \/ pos >= Len(CurrentRpn)
        /\ refs = OperandsOf(CurrentRpn, ReferencePositions(CurrentRpn), 0,
                             IF exc = "IndexError" THEN pos + 1 ELSE pos)
        /\ exc # "struct.error"

\* a finished scan that passed a string, a constant holding 0x50, indices
\* holding 0x50 and 0x51, and decoded three references
C2_Witness ==
    /\ pc = "next_patch" /\ pj >= 1 /\ exc = NoExc
    /\ OperandsComplete(CurrentRpn)
    /\ Len(refs) = 3
    /\ refs[1] = U32Of(80)
    /\ Cardinality({q \in 0..(Len(CurrentRpn) - 1) :
                    CurrentRpn[q + 1] \in {80, 129}}) > 3
    /\ \E q \in OpcodePositions(CurrentRpn) : CurrentRpn[q + 1] = 81
    /\ \E q \in OpcodePositions(CurrentRpn) : CurrentRpn[q + 1] = 128

(***************************************************************************)
(* C1: once every file has been parsed and scanned and the report is       *)
(* written, the reported names are exactly the names some file declares    *)
(* as Import or Export and that no patch reference of any file resolves    *)
(* to by index as an Import or Export symbol; references that resolve to   *)
(* a Local symbol do not count.                                            *)
(***************************************************************************)
IsGlobal(symbol) == symbol.type \in {"IMPORT", "EXPORT"}

DeclaredIn(o) ==
    {o.symbols[i].name : i \in {i \in DOMAIN o.symbols : IsGlobal(o.symbols[i])}}

DeclaredGlobals == UNION {DeclaredIn(parsed[k]) : k \in DOMAIN parsed}

\* the u32 index resolves in the table to a symbol of kind global named n
ResolvesTo(symbols, index, n) ==
    /\ index.hi = 0
    /\ index.lo < Len(symbols)
    /\ IsGlobal(symbols[index.lo + 1])
    /\ symbols[index.lo + 1].name = n

\* patch rpn holds a reference that resolves to the global n
PatchRefers(symbols, rpn, n) ==
    \E q \in ReferencePositions(rpn) :
        ResolvesTo(symbols, LittleEndian(SubSeq(rpn, q + 2, q + 5)), n)

FileRefers(o, n) ==
    \E j \in DOMAIN AllPatches(o.sections) :
        PatchRefers(o.symbols, AllPatches(o.sections)[j].rpn, n)

Referenced(n) == \E k \in DOMAIN parsed : FileRefers(parsed[k], n)

Reported == {stdout[i] : i \in DOMAIN stdout}

\* some patch of the file holds a reference with this index
IndexUsed(o, index) ==
    \E j \in DOMAIN AllPatches(o.sections) :
        \E q \in ReferencePositions(AllPatches(o.sections)[j].rpn) :
            LittleEndian(SubSeq(AllPatches(o.sections)[j].rpn, q + 2, q + 5))
                = U32Of(index)

C1_UnreferencedGlobalsReported ==
    (pc = "done" /\ ~just_dump) =>
        Reported = {n \in DeclaredGlobals : ~Referenced(n)}

\* two files: an import of the first is referenced only from the second and
\* is not reported; a reported name is also the name of a referenced local
C1_Witness ==
    /\ pc = "done" /\ ~just_dump /\ Len(parsed) = 2
    /\ Reported # {}
    /\ \E n \in DeclaredGlobals \ Reported :
          /\ ~FileRefers(parsed[1], n) /\ FileRefers(parsed[2], n)
          /\ \E i \in DOMAIN parsed[1].symbols :
                parsed[1].symbols[i] = [name |-> n, type |-> "IMPORT"]
    /\ \E i \in DOMAIN parsed[2].symbols :
          /\ parsed[2].symbols[i].type = "LOCAL"
          /\ parsed[2].symbols[i].name \in Reported
          /\ IndexUsed(parsed[2], i - 1)

(***************************************************************************)
(* C3: when the tally of a file begins (line 164 done, no symbol           *)
(* registered yet) localsyms is empty; from the end of a file's scan to    *)
(* the start of the next file's registration globalsyms does not change,   *)
(* and it is empty until the first file registers; no step of the run      *)
(* removes a key of globalsyms or lowers a count.                          *)
(***************************************************************************)
TallyBegins == pc \in {"register", "next_patch"} /\ ri = 0 /\ pj = 0

BetweenFiles ==
    pc \in {"loop", "symbols", "sections", "patches", "assertion_count",
            "assertions", "parsed"}

GlobalsGrow ==
    /\ Len(globalsyms') >= Len(globalsyms)
    /\ \A i \in DOMAIN globalsyms :
          /\ globalsyms'[i].name = globalsyms[i].name
          /\ globalsyms'[i].count >= globalsyms[i].count

C3_TalliesAcrossFiles ==
    /\ [](~just_dump /\ TallyBegins /\ exc = NoExc => localsyms = <<>>)
    /\ [](BetweenFiles /\ fi = 1 => globalsyms = <<>>)
    /\ [][(BetweenFiles => globalsyms' = globalsyms) /\ GlobalsGrow]_vars

\* the second file's tally begins: the first file left local names behind
\* and a referenced global
C3_Witness ==
    /\ fi = 2 /\ TallyBegins /\ ~just_dump
    /\ localsyms = <<>>
    /\ \E i \in DOMAIN parsed[1].symbols : parsed[1].symbols[i].type = "LOCAL"
    /\ \E i \in DOMAIN globalsyms : globalsyms[i].count > 0

(***************************************************************************)
(* C4: from the end of a file's registration on, through its scan, every   *)
(* symbol of its table is a key of localsyms (Local) or of globalsyms      *)
(* (Import, Export) with a count >= 0, and no increment misses its key.    *)
(***************************************************************************)
Registered(symbol) ==
    IF symbol.type = "LOCAL"
    THEN HasKey(localsyms, symbol.name) /\ Count(localsyms, symbol.name) >= 0
    ELSE HasKey(globalsyms, symbol.name) /\ Count(globalsyms, symbol.name) >= 0

C4_SymbolsRegistered ==
    /\ (~just_dump /\ pc \in {"next_patch", "scan"}) =>
          \A i \in DOMAIN obj.symbols : Registered(obj.symbols[i])
    /\ exc # "KeyError"

\* in a scan: a local and a global of the table, one counted, one not
C4_Witness ==
    /\ pc = "scan" /\ pos > 0 /\ exc = NoExc
    /\ \E i, j \in DOMAIN obj.symbols :
          /\ obj.symbols[i].type = "LOCAL" /\ IsGlobal(obj.symbols[j])
          /\ Count(localsyms, obj.symbols[i].name) = 0
          /\ Count(globalsyms, obj.symbols[j].name) > 0

(***************************************************************************)
(* C6: the step that parses the header of a file with at least the 12      *)
(* (primary tag) or 16 (alternate tag) header bytes: the primary tag gives *)
(* version 6 with the counts read right after the tag; the alternate tag   *)
(* followed by the revision r gives version 10 + r when r is 0, 1, 3 or 4  *)
(* and otherwise the unsupported-version failure; any other tag gives the  *)
(* unknown-magic failure; a failure reads nothing after the tag or the     *)
(* revision and leaves no object.                                          *)
(***************************************************************************)
Tag(file) == SubSeq(file, 1, 4)
Revision(file) == SubSeq(file, 5, 8)
AcceptedRevisions == {<<0, 0, 0, 0>>, <<1, 0, 0, 0>>, <<3, 0, 0, 0>>,
                      <<4, 0, 0, 0>>}

HeaderAccepted(version, cursor) ==
    /\ exc' = NoExc
    /\ obj'.version = version
    /\ obj'.symbols = <<>> /\ obj'.sections = <<>>
    /\ fpos' = cursor

HeaderRejected(why, cursor) ==
    /\ exc' = why
    /\ exit_code' = 1
    /\ obj' = None
    /\ fpos' = cursor
    /\ parsed' = parsed

HeaderResolved(file) ==
    /\ (Len(file) >= 12 /\ Tag(file) = RGB6) => HeaderAccepted(6, 12)
    /\ (Len(file) >= 16 /\ Tag(file) = RGB9
        /\ Revision(file) \in AcceptedRevisions)
          => HeaderAccepted(10 + Revision(file)[1], 16)
    /\ (Len(file) >= 8 /\ Tag(file) = RGB9
        /\ Revision(file) \notin AcceptedRevisions)
          => HeaderRejected("unknown format: version", 8)
    /\ (Len(file) >= 4 /\ Tag(file) \notin {RGB6, RGB9})
          => HeaderRejected("unknown format", 4)

C6_VersionResolution ==
    [][(pc = "loop" /\ fi <= Len(files)) => HeaderResolved(files[fi])]_vars

\* revision 2 was refused with nothing read after it
C6_Witness ==
    /\ exc = "unknown format: version"
    /\ Tag(files[fi]) = RGB9 /\ Revision(files[fi]) = <<2, 0, 0, 0>>
    /\ fpos = 8

(***************************************************************************)
(* C10: which fields a record has depends on the version alone: a patch    *)
(* has line exactly when version < 11 and pcsectionid and pcoffset exactly *)
(* when version >= 14; a section has offset exactly when version >= 14;    *)
(* a returned object has assertions exactly when version >= 13.  A         *)
(* section or patch step that read in full consumed the bytes of exactly   *)
(* those fields: the alignment is 1 + 4 bytes from version 14 on and 4     *)
(* bytes before.                                                           *)
(***************************************************************************)
PatchFieldsOk(version, patch) ==
    /\ ("line" \in DOMAIN patch) <=> (version < 11)
    /\ ("pcsectionid" \in DOMAIN patch) <=> (version >= 14)
    /\ ("pcoffset" \in DOMAIN patch) <=> (version >= 14)

SectionFieldsOk(version, sec) ==
    /\ ("offset" \in DOMAIN sec) <=> (version >= 14)
    /\ "align" \in DOMAIN sec
    /\ "patches" \in DOMAIN sec =>
          \A j \in DOMAIN sec.patches : PatchFieldsOk(version, sec.patches[j])

ObjectFieldsOk(o) ==
    /\ \A i \in DOMAIN o.sections : SectionFieldsOk(o.version, o.sections[i])
    /\ ("assertions" \in DOMAIN o) => o.version >= 13

FieldsByVersion ==
    /\ "version" \in DOMAIN obj => ObjectFieldsOk(obj)
    /\ section # NoSection => SectionFieldsOk(obj.version, section)
    /\ \A k \in DOMAIN parsed :
          ("assertions" \in DOMAIN parsed[k]) <=> (parsed[k].version >= 13)
    /\ pc \in {"assertion_count", "assertions"} => obj.version >= 13

PatchWidth(version, patch) ==
    Utf8Len(patch.filename) + 1 + (IF version < 11 THEN 4 ELSE 0) + 4
    + (IF version >= 14 THEN 8 ELSE 0) + 5 + Len(patch.rpn)

SectionWidth(version, sec) ==
    Utf8Len(sec.name) + 1 + 13 + (IF version >= 14 THEN 1 + 4 ELSE 4)
    + (IF sec.type \in {"ROMX", "ROM0"} THEN Len(sec.data) + 4 ELSE 0)

\* the section or patch the step has just read
Last(q) == q[Len(q)]
SectionRead == IF section' # NoSection THEN section' ELSE Last(obj'.sections)
PatchRead == Last(SectionRead.patches)

WidthsByVersion ==
    /\ (pc = "sections" /\ exc' = NoExc /\ ~short_read')
          => fpos' - fpos = SectionWidth(obj.version, SectionRead)
    /\ (pc = "patches" /\ exc' = NoExc /\ ~short_read')
          => fpos' - fpos = PatchWidth(obj.version, PatchRead)

C10_FieldsDependOnVersion == []FieldsByVersion /\ [][WidthsByVersion]_vars

\* a returned version 14 object with an offset on a section, the patch
\* position fields, no line, and an assertion table
C10_Witness ==
    /\ pc = "parsed" /\ obj.version = 14
    /\ "assertions" \in DOMAIN obj
    /\ \E i \in DOMAIN obj.sections :
          /\ "offset" \in DOMAIN obj.sections[i]
          /\ "patches" \in DOMAIN obj.sections[i]
          /\ \E j \in DOMAIN obj.sections[i].patches :
                /\ "pcsectionid" \in DOMAIN obj.sections[i].patches[j]
                /\ "line" \notin DOMAIN obj.sections[i].patches[j]

(***************************************************************************)
(* C7 (as claimed): once the parse of a well-formed version 14 file with   *)
(* assertions is over, it has returned an object holding all of them,      *)
(* each with section and pcoffset.                                         *)
(***************************************************************************)
AssertedV14File == FileBytes(14, DescFull)

ParseIsOver(k) ==
    \/ k < fi
    \/ k = fi /\ (exc # NoExc \/ pc \in {"parsed", "register", "next_patch",
                                         "scan"})

HoldsAssertions(o, n) ==
    /\ "assertions" \in DOMAIN o
    /\ Len(o.assertions) = n
    /\ \A i \in DOMAIN o.assertions :
          {"section", "pcoffset"} \subseteq DOMAIN o.assertions[i]

C7_V14AssertionsParsed ==
    \A k \in DOMAIN files :
        (files[k] = AssertedV14File /\ ParseIsOver(k)) =>
            /\ k \in DOMAIN parsed
            /\ HoldsAssertions(parsed[k], Len(DescFull.assertions))

(***************************************************************************)
(* C8 (as claimed): a string read that starts where no zero byte remains   *)
(* ends the run with an error.  Every record starts with a string read.    *)
(***************************************************************************)
StringReadNext == pc \in {"symbols", "sections", "patches", "assertions"}

NoZeroFrom(file, p) == \A i \in (p + 1)..Len(file) : file[i] # 0

C8_ReadStringFailsAtEnd ==
    [][(Running /\ StringReadNext /\ NoZeroFrom(files[fi], fpos))
          => exit_code' = 1 /\ exc' \notin {NoExc, "spin"}]_vars

(***************************************************************************)
(* C9 (as claimed): a section, patch or assertion that a parse step read   *)
(* without failing has as many data or expression bytes as the length      *)
(* field in the file declares.                                             *)
(***************************************************************************)
\* the u32 whose last byte is byte number e of the file
DeclaredAt(file, e) == LittleEndian(SubSeq(file, e - 3, e))

DeclaredLengthsRead ==
    /\ (pc = "sections" /\ exc' = NoExc /\ "data" \in DOMAIN SectionRead)
          => DeclaredAt(files[fi], fpos + Utf8Len(SectionRead.name) + 5)
                = U32Of(Len(SectionRead.data))
    /\ (pc = "patches" /\ exc' = NoExc)
          => DeclaredAt(files[fi], fpos' - Len(PatchRead.rpn))
                = U32Of(Len(PatchRead.rpn))
    /\ (pc = "assertions" /\ exc' = NoExc)
          => DeclaredAt(files[fi],
                        fpos' - Utf8Len(Last(obj'.assertions).message) - 1
                        - Len(Last(obj'.assertions).rpn))
                = U32Of(Len(Last(obj'.assertions).rpn))

C9_ShortReadFailsParse == [][DeclaredLengthsRead]_vars

(***************************************************************************)
(* C5 (as claimed): once the parse of a file has failed (foreign magic,    *)
(* unsupported version, or a read that found fewer bytes than asked for)   *)
(* the run has ended with a failure status, no report written.             *)
(***************************************************************************)
ParseFailed ==
    short_read \/ exc \in {"unknown format", "unknown format: version"}

C5_ParseFailureEndsRun ==
    ParseFailed => exit_code = 1 /\ pc # "done" /\ Len(parsed) < fi

====
